---- MODULE Spec2Model ----
(***************************************************************************)
(* Model of decaf (src/src/lib.rs): a proxy that buffers the text of       *)
(* AgentMessageChunk notifications per session and forwards one coalesced  *)
(* notification per flush.                                                 *)
(*                                                                         *)
(* Two tasks share the session map behind one mutex: the dispatch handler  *)
(* registered with on_receive_dispatch_from(Agent, ..) and the ticker       *)
(* registered with with_spawned.  The handler is invoked for one dispatch  *)
(* at a time.  The only synchronisation the source establishes between     *)
(* the two tasks is the mutex, so a step of the model is one of: acquiring *)
(* the lock, a critical section up to the release of the lock, one call of *)
(* send_notification_to / respond_with_result, one tick.                   *)
(***************************************************************************)
EXTENDS Integers, Sequences, FiniteSets, TLC

\* ------------------------------------------------------------------ bounds
\* Number of dispatches the agent sends during a run.
MaxRecv == 3
\* The tick counter saturates at this value (it only tells 0, 1, .. apart).
TickCap == 2
\* Session ids the agent uses.
SessionIds == {"s1", "s2"}

\* ------------------------------------------------------------------ values
NoSession == "none"
None == [none |-> TRUE]
Free == "free"
Tasks == {"handler", "ticker"}

VARIABLES
    sessions,   \* HashMap<SessionId, BufferedSession>: a function on the keys
    lock,       \* holder of the tokio Mutex, or Free
    pc,         \* pc[t]: position of each task
    msg,        \* the dispatch the handler is processing (None when idle)
    ids,        \* ids[t]: session_ids of flush_all still to visit
    cur,        \* cur[t]: session_id argument of the running flush_session
    flushed,    \* flushed[t]: the local `flushed` of flush_session
    received,   \* history: dispatches received from the agent, in order
    sent,       \* history: what was sent towards the client, in order
    ticks,      \* history: number of ticks so far, saturating at TickCap
    snap        \* history: the fragments pending at the snapshot of the
                \* ticker's running flush_all (empty when it is not running)

vars == <<sessions, lock, pc, msg, ids, cur, flushed, received, sent, ticks, snap>>

\* ------------------------------------------------------------ data model
\* A dispatch from the agent.  kind "notification" is a SessionNotification;
\* update/content give its SessionUpdate variant and ContentBlock variant.
\* seq numbers the dispatch (it stands for meta, annotations and the other
\* fields that make two notifications differ).
Notification(sid, update, content, text, seq) ==
    [kind |-> "notification", session_id |-> sid, update |-> update,
     content |-> content, text |-> text, seq |-> seq]

OtherDispatch(kind, seq) ==
    [kind |-> kind, session_id |-> NoSession, update |-> "none",
     content |-> "none", text |-> <<>>, seq |-> seq]

\* What the agent can send as its n-th dispatch.
Inputs(n) ==
    {Notification(s, "AgentMessageChunk", "Text", t, n) :
        s \in SessionIds, t \in {<<>>, <<n>>}}
    \cup {Notification(s, "AgentMessageChunk", "Image", <<>>, n) : s \in SessionIds}
    \cup {Notification(s, "ToolCall", "none", <<>>, n) : s \in SessionIds}
    \cup {OtherDispatch("prompt_response", n),
          OtherDispatch("request", n),
          OtherDispatch("other_response", n)}

\* Mutant of is_text_chunk: the pattern forgets the content kind.
is_text_chunk_AnyChunk(n) == n.update = "AgentMessageChunk"

\* lib.rs 70-76: matches!(update, AgentMessageChunk(ContentChunk{content: Text(_), ..}))
is_text_chunk(n) ==
    n.update = "AgentMessageChunk" /\ n.content = "Text"

\* lib.rs 40-47
BufferedSession(text, template) == [text |-> text, template |-> template]

\* Mutant of Accumulate: the new text replaces the buffered text instead of
\* being appended to it.
Accumulate_Overwrite(ss, n) ==
    [s \in DOMAIN ss \cup {n.session_id} |->
        IF s = n.session_id THEN [text |-> n.text, template |-> n] ELSE ss[s]]

\* Mutant of Accumulate: the template is set on insert only and not replaced
\* when text is appended to an existing record.
Accumulate_StaleTemplate(ss, n) ==
    IF n.session_id \in DOMAIN ss
    THEN [ss EXCEPT ![n.session_id].text = ss[n.session_id].text \o n.text]
    ELSE [s \in DOMAIN ss \cup {n.session_id} |->
              IF s = n.session_id THEN [text |-> n.text, template |-> n] ELSE ss[s]]

\* lib.rs 89-103: push_str onto an existing record or insert a new one.
Accumulate(ss, n) ==
    IF n.session_id \in DOMAIN ss
    THEN [ss EXCEPT ![n.session_id] =
              BufferedSession(ss[n.session_id].text \o n.text, n)]
    ELSE [s \in DOMAIN ss \cup {n.session_id} |->
              IF s = n.session_id THEN BufferedSession(n.text, n) ELSE ss[s]]

\* lib.rs 157-168: the template with its text replaced, when it is a text chunk.
Coalesced(template, text) ==
    IF is_text_chunk(template) THEN [template EXCEPT !.text = text] ELSE template

\* Mutant of HasPending: the guard forgets !buffered.text.is_empty().
HasPending_NoEmptyCheck(ss, sid) == sid \in DOMAIN ss

\* lib.rs 154-155: the guard of the drain.
HasPending(ss, sid) == sid \in DOMAIN ss /\ ss[sid].text # <<>>

\* Mutant of DrainResult: a notification is built for every existing record,
\* whether its text is empty or not.
DrainResult_NoEmptyCheck(ss, sid) ==
    IF sid \in DOMAIN ss THEN Coalesced(ss[sid].template, ss[sid].text) ELSE None

\* lib.rs 152-172: the value of `flushed`.
DrainResult(ss, sid) ==
    IF HasPending(ss, sid) THEN Coalesced(ss[sid].template, ss[sid].text) ELSE None

\* Mutant of DrainStore: the flushed record is removed from the map.
DrainStore_RemoveRecord(ss, sid) ==
    IF sid \in DOMAIN ss /\ ss[sid].text # <<>>
    THEN [s \in DOMAIN ss \ {sid} |-> ss[s]] ELSE ss

\* Mutant of DrainStore: the text of every record is emptied.
DrainStore_ClearAll(ss, sid) ==
    IF sid \in DOMAIN ss /\ ss[sid].text # <<>>
    THEN [s \in DOMAIN ss |-> [ss[s] EXCEPT !.text = <<>>]] ELSE ss

\* Mutant of DrainStore: the text is cloned instead of taken.
DrainStore_KeepText(ss, sid) == ss

\* lib.rs 156: std::mem::take empties the text and keeps the record.
DrainStore(ss, sid) ==
    IF HasPending(ss, sid) THEN [ss EXCEPT ![sid].text = <<>>] ELSE ss

\* Mutant of PendingIds: the filter on non-empty text is missing.
PendingIds_All(ss) == DOMAIN ss

\* lib.rs 184-191: ids of the sessions with non-empty text.
PendingIds(ss) == {s \in DOMAIN ss : ss[s].text # <<>>}

\* The fragments (each text is its own sequence number) pending in the store.
PendingText(ss) == UNION {{ss[s].text[i] : i \in 1..Len(ss[s].text)} : s \in DOMAIN ss}

\* All orders in which a HashMap iteration can yield the set S.
Orders(S) ==
    {q \in [1..Cardinality(S) -> S] : \A i, j \in 1..Cardinality(S) : q[i] = q[j] => i = j}

\* ------------------------------------------------------------------ state
\* lib.rs 57: the map starts empty; no task has started anything.
Init ==
    /\ sessions = <<>>
    /\ lock = Free
    /\ pc = [t \in Tasks |-> IF t = "handler" THEN "idle" ELSE "wait"]
    /\ msg = None
    /\ ids = [t \in Tasks |-> <<>>]
    /\ cur = [t \in Tasks |-> NoSession]
    /\ flushed = [t \in Tasks |-> None]
    /\ received = <<>>
    /\ sent = <<>>
    /\ ticks = 0
    /\ snap = {}

\* An Err returned by a handler or by the ticker ends the run (lib.rs 135-136).
Running == \A t \in Tasks : pc[t] # "err"

\* True while task t runs flush_all (the ticker always; the handler for a
\* prompt response), false while the handler runs flush_session for a
\* boundary notification.
InFlushAll(t) == t = "ticker" \/ msg.kind = "prompt_response"

\* Where task t goes when flush_all returns Ok: the ticker awaits the next
\* tick (lib.rs 129-132), the handler responds (lib.rs 117).
AfterFlushAll(t) == IF t = "ticker" THEN "wait" ELSE "respond"

\* Mutant of Continue: flush_all returns after the first session it flushed.
Continue_StopAfterFirst(t, rest) ==
    /\ IF InFlushAll(t)
       THEN IF rest # <<>> /\ pc[t] = "fa_cs"
            THEN /\ pc' = [pc EXCEPT ![t] = "fs_lock"]
                 /\ cur' = [cur EXCEPT ![t] = Head(rest)]
                 /\ ids' = [ids EXCEPT ![t] = Tail(rest)]
            ELSE /\ pc' = [pc EXCEPT ![t] = AfterFlushAll(t)]
                 /\ cur' = [cur EXCEPT ![t] = NoSession]
                 /\ ids' = [ids EXCEPT ![t] = <<>>]
       ELSE /\ pc' = [pc EXCEPT ![t] = "fwd"]
            /\ cur' = [cur EXCEPT ![t] = NoSession]
            /\ ids' = ids
    /\ snap' = IF t # "ticker" THEN snap
               ELSE IF rest = <<>> \/ pc[t] # "fa_cs" THEN {}
               ELSE PendingText(sessions)

\* Task t continues after flush_session returned Ok(()), with `rest` the
\* session_ids flush_all has not visited yet (lib.rs 193-197 and 106-107).
Continue(t, rest) ==
    /\ IF InFlushAll(t)
       THEN IF rest # <<>>
            THEN /\ pc' = [pc EXCEPT ![t] = "fs_lock"]
                 /\ cur' = [cur EXCEPT ![t] = Head(rest)]
                 /\ ids' = [ids EXCEPT ![t] = Tail(rest)]
            ELSE /\ pc' = [pc EXCEPT ![t] = AfterFlushAll(t)]
                 /\ cur' = [cur EXCEPT ![t] = NoSession]
                 /\ ids' = [ids EXCEPT ![t] = <<>>]
       ELSE /\ pc' = [pc EXCEPT ![t] = "fwd"]
            /\ cur' = [cur EXCEPT ![t] = NoSession]
            /\ ids' = ids
    /\ snap' = IF t # "ticker" THEN snap
               ELSE IF rest = <<>> THEN {}
               ELSE IF pc[t] = "fa_cs" THEN PendingText(sessions)
               ELSE snap

\* ---------------------------------------------------------------- handler
\* Mutant of NextPc: a boundary notification is forwarded without a flush.
NextPc_NoFlush(d) ==
    IF d.kind = "notification"
    THEN IF is_text_chunk(d) THEN "acc_lock" ELSE "fwd"
    ELSE IF d.kind = "prompt_response" THEN "fa_lock" ELSE "pass"

\* Mutant of NextPc: every agent message chunk is buffered, whatever its
\* content block is.
NextPc_BuffersAllChunks(d) ==
    IF d.kind = "notification"
    THEN IF d.update = "AgentMessageChunk" THEN "acc_lock" ELSE "fs_lock"
    ELSE IF d.kind = "prompt_response" THEN "fa_lock" ELSE "pass"

\* lib.rs 67-121: the handler is called with the next dispatch from the agent
\* and decides by its kind what to do.
NextPc(d) ==
    IF d.kind = "notification"
    THEN IF is_text_chunk(d) THEN "acc_lock" ELSE "fs_lock"
    ELSE IF d.kind = "prompt_response" THEN "fa_lock" ELSE "pass"

Receive ==
    /\ Running
    /\ pc["handler"] = "idle"
    /\ Len(received) < MaxRecv
    /\ \E d \in Inputs(Len(received) + 1) :
          /\ received' = Append(received, d)
          /\ msg' = d
          /\ pc' = [pc EXCEPT !["handler"] = NextPc(d)]
          /\ cur' = [cur EXCEPT !["handler"] =
                        IF NextPc(d) = "fs_lock" THEN d.session_id ELSE NoSession]
    /\ UNCHANGED <<sessions, lock, ids, flushed, sent, ticks, snap>>

\* lib.rs 80: state.lock().await in the text-chunk branch.
AccLock ==
    /\ Running
    /\ pc["handler"] = "acc_lock"
    /\ lock = Free
    /\ lock' = "handler"
    /\ pc' = [pc EXCEPT !["handler"] = "acc_cs"]
    /\ UNCHANGED <<sessions, msg, ids, cur, flushed, received, sent, ticks, snap>>

\* lib.rs 81-110: append the text, replace the template, drop the guard, Ok(()).
AccStore ==
    /\ Running
    /\ pc["handler"] = "acc_cs"
    /\ sessions' = Accumulate(sessions, msg)
    /\ lock' = Free
    /\ pc' = [pc EXCEPT !["handler"] = "idle"]
    /\ msg' = None
    /\ UNCHANGED <<ids, cur, flushed, received, sent, ticks, snap>>

\* lib.rs 107: cx.send_notification_to(Client, notification)? succeeds.
FwdBoundary ==
    /\ Running
    /\ pc["handler"] = "fwd"
    /\ sent' = Append(sent, msg)
    /\ pc' = [pc EXCEPT !["handler"] = "idle"]
    /\ msg' = None
    /\ UNCHANGED <<sessions, lock, ids, cur, flushed, received, ticks, snap>>

\* lib.rs 117: router.respond_with_result(result) succeeds.
Respond ==
    /\ Running
    /\ pc["handler"] = "respond"
    /\ sent' = Append(sent, msg)
    /\ pc' = [pc EXCEPT !["handler"] = "idle"]
    /\ msg' = None
    /\ UNCHANGED <<sessions, lock, ids, cur, flushed, received, ticks, snap>>

\* lib.rs 107 and 117: the send of the boundary notification or of the
\* response fails; `?` returns the error from the handler.
HandlerSendFail ==
    /\ Running
    /\ pc["handler"] \in {"fwd", "respond"}
    /\ pc' = [pc EXCEPT !["handler"] = "err"]
    /\ UNCHANGED <<sessions, lock, msg, ids, cur, flushed, received, sent, ticks, snap>>

\* lib.rs 120: .done() leaves every other dispatch unhandled, and the proxy
\* forwards it as it is.
PassThrough ==
    /\ Running
    /\ pc["handler"] = "pass"
    /\ sent' = Append(sent, msg)
    /\ pc' = [pc EXCEPT !["handler"] = "idle"]
    /\ msg' = None
    /\ UNCHANGED <<sessions, lock, ids, cur, flushed, received, ticks, snap>>

\* ----------------------------------------------------------- flush_session
\* lib.rs 153: state.lock().await.
FsLock(t) ==
    /\ Running
    /\ pc[t] = "fs_lock"
    /\ lock = Free
    /\ lock' = t
    /\ pc' = [pc EXCEPT ![t] = "fs_cs"]
    /\ UNCHANGED <<sessions, msg, ids, cur, flushed, received, sent, ticks, snap>>

\* Mutant of FsDrain: the guard is not dropped before the send (the block
\* around the critical section is missing).
FsDrain_HoldsLock(t) ==
    /\ Running
    /\ pc[t] = "fs_cs"
    /\ DrainResult(sessions, cur[t]) # None
    /\ flushed' = [flushed EXCEPT ![t] = DrainResult(sessions, cur[t])]
    /\ sessions' = DrainStore(sessions, cur[t])
    /\ pc' = [pc EXCEPT ![t] = "fs_send"]
    /\ UNCHANGED <<lock, msg, ids, cur, received, sent, ticks, snap>>

\* lib.rs 154-172 with text pending: take the text, build the notification,
\* drop the guard.
FsDrain(t) ==
    /\ Running
    /\ pc[t] = "fs_cs"
    /\ DrainResult(sessions, cur[t]) # None
    /\ flushed' = [flushed EXCEPT ![t] = DrainResult(sessions, cur[t])]
    /\ sessions' = DrainStore(sessions, cur[t])
    /\ lock' = Free
    /\ pc' = [pc EXCEPT ![t] = "fs_send"]
    /\ UNCHANGED <<msg, ids, cur, received, sent, ticks, snap>>

\* lib.rs 170-178 with nothing pending: flushed is None, nothing is sent,
\* flush_session returns Ok(()).
FsNothing(t) ==
    /\ Running
    /\ pc[t] = "fs_cs"
    /\ DrainResult(sessions, cur[t]) = None
    /\ sessions' = DrainStore(sessions, cur[t])
    /\ lock' = Free
    /\ Continue(t, ids[t])
    /\ UNCHANGED <<msg, flushed, received, sent, ticks>>

\* lib.rs 174-178: cx.send_notification_to(Client, notification)? succeeds.
FsSend(t) ==
    /\ Running
    /\ pc[t] = "fs_send"
    /\ sent' = Append(sent, flushed[t])
    /\ flushed' = [flushed EXCEPT ![t] = None]
    /\ Continue(t, ids[t])
    /\ UNCHANGED <<sessions, lock, msg, received, ticks>>

\* Mutant of FsSendFail: the error of the send is ignored and the caller
\* carries on.
FsSendFail_Suppressed(t) ==
    /\ Running
    /\ pc[t] = "fs_send"
    /\ flushed' = [flushed EXCEPT ![t] = None]
    /\ Continue(t, ids[t])
    /\ UNCHANGED <<sessions, lock, msg, received, sent, ticks>>

\* lib.rs 175, 194, 106, 116, 131: the send fails; `?` returns the error from
\* flush_session, from flush_all and from the handler or the ticker.  The
\* notification is dropped with the frame.
FsSendFail(t) ==
    /\ Running
    /\ pc[t] = "fs_send"
    /\ flushed' = [flushed EXCEPT ![t] = None]
    /\ pc' = [pc EXCEPT ![t] = "err"]
    /\ UNCHANGED <<sessions, lock, msg, ids, cur, received, sent, ticks, snap>>

\* --------------------------------------------------------------- flush_all
\* lib.rs 185: state.lock().await.
FaLock(t) ==
    /\ Running
    /\ pc[t] = "fa_lock"
    /\ lock = Free
    /\ lock' = t
    /\ pc' = [pc EXCEPT ![t] = "fa_cs"]
    /\ UNCHANGED <<sessions, msg, ids, cur, flushed, received, sent, ticks, snap>>

\* lib.rs 186-197: collect the ids with pending text, in the map's iteration
\* order, drop the guard, and start on the first (or return Ok(()) if none).
FaSnapshot(t) ==
    /\ Running
    /\ pc[t] = "fa_cs"
    /\ lock' = Free
    /\ \E q \in Orders(PendingIds(sessions)) : Continue(t, q)
    /\ UNCHANGED <<sessions, msg, flushed, received, sent, ticks>>

\* ------------------------------------------------------------------ ticker
\* lib.rs 128-131: ticker.tick().await returns and flush_all is called.
Tick ==
    /\ Running
    /\ pc["ticker"] = "wait"
    /\ ticks' = IF ticks < TickCap THEN ticks + 1 ELSE ticks
    /\ pc' = [pc EXCEPT !["ticker"] = "fa_lock"]
    /\ UNCHANGED <<sessions, lock, msg, ids, cur, flushed, received, sent, snap>>

\* ------------------------------------------------------------ specification
Next ==
    \/ Receive
    \/ AccLock
    \/ AccStore
    \/ FwdBoundary
    \/ Respond
    \/ HandlerSendFail
    \/ PassThrough
    \/ Tick
    \/ \E t \in Tasks : FsLock(t)
    \/ \E t \in Tasks : FsDrain(t)
    \/ \E t \in Tasks : FsNothing(t)
    \/ \E t \in Tasks : FsSend(t)
    \/ \E t \in Tasks : FsSendFail(t)
    \/ \E t \in Tasks : FaLock(t)
    \/ \E t \in Tasks : FaSnapshot(t)

Spec == Init /\ [][Next]_vars

\* ------------------------------------------------- reading the histories
RECURSIVE Concat(_)
\* The concatenation of a sequence of texts.
Concat(q) == IF q = <<>> THEN <<>> ELSE Head(q) \o Concat(Tail(q))

Texts(q) == [i \in 1..Len(q) |-> q[i].text]
Range(q) == {q[i] : i \in 1..Len(q)}

IsFragmentOf(s, d) == d.kind = "notification" /\ d.session_id = s /\ is_text_chunk(d)
IsBoundaryOf(s, d) == d.kind = "notification" /\ d.session_id = s /\ ~is_text_chunk(d)

\* The text fragments received for session s, and the boundary events.
Fragments(s) == LET K(d) == IsFragmentOf(s, d) IN SelectSeq(received, K)
\* The coalesced events sent for session s (text chunks are never forwarded
\* one by one, so every text chunk in `sent` is a coalesced event).
CoalescedSent(s) == LET K(d) == IsFragmentOf(s, d) IN SelectSeq(sent, K)
\* Everything sent for session s.
SentFor(s) == LET K(d) == d.session_id = s IN SelectSeq(sent, K)
RecvFor(s) == LET K(d) == d.session_id = s IN SelectSeq(received, K)

RecvText(s) == Concat(Texts(Fragments(s)))
SentText(s) == Concat(Texts(CoalescedSent(s)))

\* The handler has received a fragment for s and not stored it yet.
Arriving(s) == pc["handler"] \in {"acc_lock", "acc_cs"} /\ msg.session_id = s
\* Some task has drained text of s and not sent it yet.
InFlight(s) == \E t \in Tasks : flushed[t] # None /\ flushed[t].session_id = s
\* Session s has no text in its buffer and no flush of s is between its drain
\* and its send.
Settled(s) == ~HasPending(sessions, s) /\ ~InFlight(s) /\ ~Arriving(s)

NoBoundaryReceived(s) == \A i \in 1..Len(received) : ~IsBoundaryOf(s, received[i])

NoPromptResponseReceived ==
    \A i \in 1..Len(received) : received[i].kind # "prompt_response"

\* C4: when the flush_all of the completion trigger has returned Ok and the
\* response has not been forwarded yet, the text of every record is empty.
C4_EmptyAfterCompletionFlush ==
    pc["handler"] = "respond" => \A s \in DOMAIN sessions : sessions[s].text = <<>>

\* The completion flush has returned after the handler itself flushed text
\* (no tick ever ran, so nobody else drained it).
C4_Witness ==
    /\ pc["handler"] = "respond"
    /\ ticks = 0
    /\ \E s \in DOMAIN sessions : RecvText(s) # <<>> /\ SentText(s) = RecvText(s)

\* ------------------------------------------------------------------ C5
\* Number of coalesced events of s drained and not sent yet.
NumInFlight(s) ==
    Cardinality({t \in Tasks : flushed[t] # None /\ flushed[t].session_id = s})

\* The only flush so far was one tick, it has finished, and nothing of s is
\* left behind: the tick came after the burst.
OnlyOneTickFlushed(s) ==
    /\ Running
    /\ ticks = 1
    /\ pc["ticker"] = "wait"
    /\ NoBoundaryReceived(s)
    /\ NoPromptResponseReceived
    /\ Settled(s)
    /\ RecvText(s) # <<>>

\* C5: the coalesced events sent (or drained) for a session never outnumber
\* the fragments received for it; and a burst flushed by one tick only, after
\* the burst, gives exactly one event, carrying the concatenation.
C5_BoundedFanIn ==
    \A s \in SessionIds :
        /\ Len(CoalescedSent(s)) + NumInFlight(s) <= Len(Fragments(s))
        /\ OnlyOneTickFlushed(s) => Texts(CoalescedSent(s)) = <<RecvText(s)>>

\* A burst of two fragments flushed by the one tick.
C5_Witness ==
    \E s \in SessionIds :
        /\ OnlyOneTickFlushed(s)
        /\ Len(RecvText(s)) >= 2
        /\ Len(CoalescedSent(s)) = 1

\* ------------------------------------------------------------------ C6
\* Session s has no record or a record with empty text.
NothingBuffered(s) == s \notin DOMAIN sessions \/ sessions[s].text = <<>>

\* C6: the drain step of flush_session on a session with nothing buffered,
\* and the snapshot step of flush_all when no session has pending text, leave
\* the store as it is, send nothing and return without going on to a send.
C6_FlushIdempotence ==
    [][\A t \in Tasks :
          /\ (pc[t] = "fs_cs" /\ pc'[t] # "fs_cs" /\ NothingBuffered(cur[t]))
                => /\ sessions' = sessions
                   /\ sent' = sent
                   /\ flushed'[t] = None
                   /\ pc'[t] # "fs_send"
          /\ (pc[t] = "fa_cs" /\ pc'[t] # "fa_cs"
                  /\ \A s \in DOMAIN sessions : sessions[s].text = <<>>)
                => /\ sessions' = sessions
                   /\ sent' = sent
                   /\ flushed'[t] = None
                   /\ pc'[t] = AfterFlushAll(t)]_vars

\* flush_session has returned to the handler for a session whose record
\* exists with empty text, and no coalesced event was sent.
C6_Witness ==
    /\ pc["handler"] = "fwd"
    /\ ticks = 0
    /\ msg.session_id \in DOMAIN sessions
    /\ Len(Fragments(msg.session_id)) >= 1
    /\ CoalescedSent(msg.session_id) = <<>>

\* ------------------------------------------------------------------ C7
\* The handler has finished a run of fragments of s (with text) followed by
\* one boundary event of s, and neither a tick nor a completion flush ran.
FragmentsThenBoundary(s) ==
    /\ Running
    /\ ticks = 0
    /\ NoPromptResponseReceived
    /\ pc["handler"] = "idle"
    /\ Len(RecvFor(s)) >= 2
    /\ \A i \in 1..Len(RecvFor(s)) :
          is_text_chunk(RecvFor(s)[i]) <=> i < Len(RecvFor(s))
    /\ RecvText(s) # <<>>

\* C7: then exactly two events were sent for s: the coalesced event with the
\* whole text, and after it the boundary event as it was received.
C7_FragmentsThenBoundary ==
    \A s \in SessionIds :
        FragmentsThenBoundary(s) =>
            /\ Len(SentFor(s)) = 2
            /\ is_text_chunk(SentFor(s)[1])
            /\ SentFor(s)[1].text = RecvText(s)
            /\ SentFor(s)[2] = RecvFor(s)[Len(RecvFor(s))]

\* Two fragments and a boundary event for one session.
C7_Witness ==
    \E s \in SessionIds : FragmentsThenBoundary(s) /\ Len(RecvText(s)) = 2

\* ------------------------------------------------------------------ C8
\* The handler forwards the dispatch it is processing from position k.
Forwards(k) == pc["handler"] = k /\ pc'["handler"] = "idle"

\* The sessions whose text a dispatch would have to wait for: its own
\* session, or every session when it belongs to none.
SessionsOf(d) == IF d.session_id = NoSession THEN SessionIds ELSE {d.session_id}

SentFragments == UNION {Range(SentText(s)) : s \in SessionIds}

TaskStep(t) ==
    \/ FsDrain(t) \/ FsNothing(t) \/ FsSend(t) \/ FaSnapshot(t)
    \/ (t = "handler" /\ (AccStore \/ FwdBoundary \/ Respond \/ PassThrough))
    \/ (t = "ticker" /\ Tick)
LockStep(t) == FsLock(t) \/ FaLock(t) \/ (t = "handler" /\ AccLock)

FairSpec ==
    Spec /\ \A t \in Tasks : WF_vars(TaskStep(t)) /\ SF_vars(LockStep(t))

\* C9 (first part): under FairSpec every fragment with text is eventually
\* sent, unless a send fails.
C9_EventuallySent ==
    \A n \in 1..MaxRecv :
        (\E s \in SessionIds : n \in Range(RecvText(s))) ~> (n \in SentFragments \/ ~Running)

\* ------------------------------------------------------------------ C10
\* C10: a step that leaves the send of flush_session without appending the
\* coalesced event to `sent` ends the task in error: nothing is sent, the
\* store keeps the text drained (it is not put back), the event is dropped,
\* the rest of the snapshot is not visited, and the dispatch that triggered
\* the flush is not forwarded; and once a task has failed no task takes
\* another step (no retry, no later flush, the ticker loop has ended).
C10_SendFailureIsFatal ==
    [][/\ Running
       /\ \A t \in Tasks :
            (pc[t] = "fs_send" /\ pc'[t] # "fs_send" /\ sent' # Append(sent, flushed[t]))
               => /\ pc'[t] = "err"
                  /\ sent' = sent
                  /\ sessions' = sessions
                  /\ flushed'[t] = None
                  /\ ids' = ids
                  /\ msg' = msg
                  /\ \A u \in Tasks \ {t} : pc'[u] = pc[u]]_vars

\* The ticker's flush_all has stopped at a failed send with a session of its
\* snapshot still pending.
C10_Witness ==
    /\ pc["ticker"] = "err"
    /\ ids["ticker"] # <<>>
    /\ HasPending(sessions, ids["ticker"][1])

\* ------------------------------------------------------------------ C11
\* The fragments of s the handler has stored so far (all that were received,
\* but the one it is storing right now).
StoredFragments(s) ==
    IF Arriving(s) THEN SubSeq(Fragments(s), 1, Len(Fragments(s)) - 1) ELSE Fragments(s)

\* The coalesced events built so far: sent, or drained and not sent yet.
CoalescedEvents ==
    {sent[i] : i \in {j \in 1..Len(sent) :
                        sent[j].kind = "notification" /\ is_text_chunk(sent[j])}}
    \cup {flushed[t] : t \in {u \in Tasks : flushed[u] # None}}

\* The texts of the fragments of s numbered lo..hi, in arrival order.
TextBetween(s, lo, hi) ==
    LET K(d) == IsFragmentOf(s, d) /\ lo <= d.seq /\ d.seq <= hi
    IN  Concat(Texts(SelectSeq(received, K)))

\* C11: every coalesced event is the fragment of its session that was the
\* latest one stored when it was drained, with nothing but the text changed:
\* the text is the whole text of the fragments from the first one it carries
\* up to that latest fragment.  And the template of every record is the
\* latest fragment stored for its session.
C11_CoalescedIsLatestTemplate ==
    /\ \A e \in CoalescedEvents :
          /\ e.seq \in 1..Len(received)
          /\ IsFragmentOf(e.session_id, received[e.seq])
          /\ e = [received[e.seq] EXCEPT !.text = e.text]
          /\ e.text # <<>>
          /\ e.text = TextBetween(e.session_id, e.text[1], e.seq)
    /\ \A s \in DOMAIN sessions :
          /\ StoredFragments(s) # <<>>
          /\ sessions[s].template = StoredFragments(s)[Len(StoredFragments(s))]

\* An event has been sent that carries the text of two fragments and the
\* fields of a third, later one (whose own text was empty).
C11_Witness ==
    \E i \in 1..Len(sent) :
        /\ sent[i].kind = "notification"
        /\ is_text_chunk(sent[i])
        /\ Len(sent[i].text) = 2
        /\ sent[i].seq = 3

\* ------------------------------------------------------------------ C12
\* d is a session notification whose update is an AgentMessageChunk with
\* Text content (spelled out on the fields of the notification).
TextFragment(d) ==
    d.kind = "notification" /\ d.update = "AgentMessageChunk" /\ d.content = "Text"

\* The handler takes a step.
HandlerSteps == pc'["handler"] # pc["handler"]

\* How often d occurs in what was sent.
TimesSent(d) == Cardinality({i \in 1..Len(sent) : sent[i] = d})

\* Every session notification that is no text fragment and that the handler
\* has finished with was sent exactly once, as it was received; the one the
\* handler is still working on was not sent yet.
BoundarySentOnce ==
    \A i \in 1..Len(received) :
        (received[i].kind = "notification" /\ ~TextFragment(received[i]))
            => TimesSent(received[i]) =
                   IF i < Len(received) \/ pc["handler"] = "idle" THEN 1 ELSE 0

\* C12: a session notification is stored in the buffer (the handler sends
\* nothing while it deals with it) if and only if it is a text fragment; any
\* other session notification goes through flush_session of its own session
\* and is then forwarded once, unmodified.
C12_ClassifyAndPassThrough ==
    [][/\ (Len(received') > Len(received) /\ msg'.kind = "notification") =>
             /\ TextFragment(msg') <=> pc'["handler"] = "acc_lock"
             /\ ~TextFragment(msg') <=>
                   (pc'["handler"] = "fs_lock" /\ cur'["handler"] = msg'.session_id)
       /\ (HandlerSteps /\ pc["handler"] \in {"acc_lock", "acc_cs"}) =>
             /\ TextFragment(msg)
             /\ sent' = sent
             /\ pc'["handler"] = "idle" =>
                   /\ msg.session_id \in DOMAIN sessions'
                   /\ sessions'[msg.session_id].text =
                         (IF msg.session_id \in DOMAIN sessions
                          THEN sessions[msg.session_id].text ELSE <<>>) \o msg.text
       /\ (HandlerSteps /\ pc'["handler"] = "fwd") =>
             /\ pc["handler"] \in {"fs_cs", "fs_send"}
             /\ cur["handler"] = msg.session_id
             /\ ~TextFragment(msg)
       /\ Forwards("fwd") => sent' = Append(sent, msg)
       /\ BoundarySentOnce']_vars

\* An AgentMessageChunk with image content has been forwarded, after text of
\* its session was flushed for it.
C12_Witness ==
    /\ Len(sent) = 2
    /\ pc["handler"] = "idle"
    /\ sent[2].update = "AgentMessageChunk"
    /\ sent[2].content = "Image"
    /\ TextFragment(sent[1])
    /\ sent[1].session_id = sent[2].session_id

\* ------------------------------------------------------------------ C13
StoredText(s) == Concat(Texts(StoredFragments(s)))
BufferText(s) == IF s \in DOMAIN sessions THEN sessions[s].text ELSE <<>>
\* The tasks holding text of s drained and not sent yet.
Holders(s) == {t \in Tasks : flushed[t] # None /\ flushed[t].session_id = s}

RECURSIVE SumLen(_, _)
\* The total length of the texts the tasks of T hold in `flushed`.
SumLen(T, f) ==
    IF T = {} THEN 0
    ELSE LET t == CHOOSE u \in T : TRUE IN Len(f[t].text) + SumLen(T \ {t}, f)

\* C13: as long as no send has failed, the text stored for a session is
\* accounted for exactly, nothing lost and nothing twice: every stored
\* fragment is in a sent event, in an event drained and not sent yet, or in
\* the buffer, and in one of them only; the buffer holds the latest part.
C13_DrainAtomicity ==
    \A s \in SessionIds :
        Running =>
            /\ Range(SentText(s)) \cup Range(BufferText(s))
                  \cup UNION {Range(flushed[t].text) : t \in Holders(s)}
                     = Range(StoredText(s))
            /\ Len(SentText(s)) + Len(BufferText(s)) + SumLen(Holders(s), flushed)
                  = Len(StoredText(s))
            /\ BufferText(s) =
                  SubSeq(StoredText(s),
                         Len(StoredText(s)) - Len(BufferText(s)) + 1, Len(StoredText(s)))

\* One session has text already sent, text drained and not sent yet, and a
\* fragment that arrived after that drain in its buffer.
C13_Witness ==
    \E s \in SessionIds :
        /\ Running
        /\ SentText(s) # <<>>
        /\ Holders(s) # {}
        /\ BufferText(s) # <<>>

\* ------------------------------------------------------------------ C14
\* The step appends a coalesced event to what was sent.
SendsCoalesced ==
    /\ Len(sent') = Len(sent) + 1
    /\ TextFragment(sent'[Len(sent')])

\* C14: the drain of flush_session goes on to a send if and only if the text
\* it drained is not empty, and then sends that text; the send appends one
\* event (or fails) and flush_session returns; nothing else sends a coalesced
\* event; and no coalesced event, sent or about to be sent, has empty text.
C14_OneEventIffText ==
    [][/\ \A t \in Tasks :
            /\ (pc[t] = "fs_cs" /\ pc'[t] # "fs_cs") =>
                  /\ sent' = sent
                  /\ BufferText(cur[t]) # <<>> <=> pc'[t] = "fs_send"
                  /\ pc'[t] = "fs_send" => flushed'[t].text = BufferText(cur[t])
            /\ (pc[t] = "fs_send" /\ pc'[t] # "fs_send") =>
                  /\ flushed'[t] = None
                  /\ \/ sent' = Append(sent, flushed[t])
                     \/ sent' = sent /\ pc'[t] = "err"
       /\ SendsCoalesced => \E t \in Tasks : pc[t] = "fs_send" /\ pc'[t] # "fs_send"
       /\ \A e \in CoalescedEvents' : e.text # <<>>]_vars

\* A session received a fragment with text and a fragment without, then a
\* boundary event: one coalesced event and the boundary event were sent.
C14_Witness ==
    \E s \in SessionIds :
        /\ pc["handler"] = "idle"
        /\ ticks = 0
        /\ Len(Fragments(s)) = 2
        /\ Len(RecvText(s)) = 1
        /\ Len(CoalescedSent(s)) = 1
        /\ Len(SentFor(s)) = 2

\* ------------------------------------------------------------------ C15
\* Task t takes a step.
Steps(t) == pc'[t] # pc[t]
\* The sessions task t is visiting and has still to visit, after the step.
ToVisit(t) == IF pc'[t] = "fs_lock" THEN <<cur'[t]>> \o ids'[t] ELSE <<>>
\* Session s had text pending when the ticker took its snapshot.
InSnapshot(s) == \E c \in snap : received[c].session_id = s

\* C15: the snapshot of flush_all lists exactly the sessions with non-empty
\* text at that moment, each once, and changes nothing; flush_all then visits
\* them one after the other in that order and returns after the last; a
\* drain of the ticker's flush_all is of a session of its snapshot and takes
\* the whole buffer, later fragments included; and no step of the ticker's
\* flush_all touches the buffer of a session that was not in its snapshot.
C15_SnapshotSemantics ==
    [][\A t \in Tasks :
          /\ (pc[t] = "fa_cs" /\ Steps(t)) =>
                /\ Range(ToVisit(t)) = {s \in SessionIds : BufferText(s) # <<>>}
                /\ Len(ToVisit(t)) = Cardinality(Range(ToVisit(t)))
                /\ pc'[t] = (IF ToVisit(t) = <<>> THEN AfterFlushAll(t) ELSE "fs_lock")
                /\ sessions' = sessions /\ sent' = sent
          /\ (pc[t] \in {"fs_cs", "fs_send"} /\ InFlushAll(t) /\ Steps(t)
                  /\ pc'[t] \notin {"fs_send", "err"}) =>
                IF ids[t] = <<>>
                THEN pc'[t] = AfterFlushAll(t)
                ELSE pc'[t] = "fs_lock" /\ cur'[t] = Head(ids[t]) /\ ids'[t] = Tail(ids[t])
          /\ (pc[t] \in {"fs_lock", "fs_cs"} /\ Steps(t) /\ pc'[t] \in {"fs_cs", "fs_send"}) =>
                cur'[t] = cur[t] /\ ids'[t] = ids[t]
          /\ (t = "ticker" /\ pc[t] = "fs_cs" /\ pc'[t] = "fs_send") =>
                /\ InSnapshot(cur[t])
                /\ flushed'[t].text = BufferText(cur[t])
          /\ (t = "ticker" /\ Steps(t) /\ pc[t] \in {"fs_lock", "fs_cs", "fs_send"}) =>
                \A s \in SessionIds : ~InSnapshot(s) => BufferText(s)' = BufferText(s)]_vars

\* The ticker has drained, for a session of its snapshot, a text that holds a
\* fragment stored after the snapshot, while another session that became
\* pending after the snapshot stays buffered.
C15_Witness ==
    /\ pc["ticker"] = "fs_send"
    /\ ids["ticker"] = <<>>
    /\ \E c \in Range(flushed["ticker"].text) : c \notin snap
    /\ \E s \in SessionIds : BufferText(s) # <<>> /\ ~InSnapshot(s)

\* ------------------------------------------------------------------ C16
\* Positions at which a task awaits the lock, holds it, performs a send.
LockPoints == {"acc_lock", "fs_lock", "fa_lock"}
CriticalSections == {"acc_cs", "fs_cs", "fa_cs"}
SendPoints == {"fs_send", "fwd", "respond", "pass"}

\* A task holds the lock exactly while it is in a critical section (so never
\* at a send, and never while it awaits the lock itself); and whenever a task
\* awaits the lock, either it can take it or the holder can take its step
\* out of the critical section: no deadlock.
LockDiscipline ==
    /\ lock \in Tasks \cup {Free}
    /\ \A t \in Tasks :
          /\ lock = t <=> pc[t] \in CriticalSections
          /\ pc[t] \in SendPoints => lock # t
          /\ (Running /\ pc[t] \in LockPoints) =>
                \/ ENABLED LockStep(t)
                \/ \E u \in Tasks \ {t} : lock = u /\ ENABLED TaskStep(u)

\* C16: the lock discipline holds in every state, and under FairSpec every
\* task that awaits the lock gets it (unless a failed send ends the run).
C16_LockDiscipline ==
    /\ []LockDiscipline
    /\ \A t \in Tasks : (pc[t] \in LockPoints) ~> (lock = t \/ ~Running)

\* The handler awaits the lock while the ticker holds it for a drain.
C16_Witness ==
    /\ lock = "ticker"
    /\ pc["ticker"] = "fs_cs"
    /\ pc["handler"] \in LockPoints

\* ------------------------------------------------------------------ C17
\* The handler finishes storing the text fragment it is processing.
StoresFragmentOf(s) ==
    /\ pc["handler"] = "acc_cs"
    /\ pc'["handler"] = "idle"
    /\ TextFragment(msg)
    /\ msg.session_id = s

\* C17: no step removes a record; a record is new only for the session of
\* the text fragment the handler is storing; a template changes only then,
\* too; and the drain step of flush_session keeps the set of records and the
\* template of the record it empties.
C17_RecordLifecycle ==
    [][/\ DOMAIN sessions \subseteq DOMAIN sessions'
       /\ \A s \in DOMAIN sessions' \ DOMAIN sessions : StoresFragmentOf(s)
       /\ \A s \in DOMAIN sessions :
             sessions'[s].template # sessions[s].template => StoresFragmentOf(s)
       /\ \A t \in Tasks :
             (pc[t] \in {"fs_cs", "fa_cs"} /\ Steps(t)) =>
                /\ DOMAIN sessions' = DOMAIN sessions
                /\ (pc[t] = "fs_cs" /\ cur[t] \in DOMAIN sessions) =>
                      sessions'[cur[t]] =
                          [text |-> <<>>, template |-> sessions[cur[t]].template]]_vars

\* One session has a record that a flush has emptied, and another session,
\* for which only a boundary event came, has none.
C17_Witness ==
    \E s, u \in SessionIds :
        /\ pc["handler"] = "idle"
        /\ s \in DOMAIN sessions
        /\ sessions[s].text = <<>>
        /\ SentText(s) # <<>>
        /\ u \notin DOMAIN sessions
        /\ RecvFor(u) # <<>>

\* ------------------------------------------------------------------ C18
\* The sessions whose record differs before and after the step.
Changed ==
    {s \in DOMAIN sessions' :
        s \notin DOMAIN sessions \/ sessions'[s] # sessions[s]}

\* C18: a step that changes the store changes the record of one session: the
\* session of the fragment being stored, or the session being flushed; and
\* every coalesced event, sent or about to be, carries text of fragments that
\* were received for its own session only.
C18_SessionIsolation ==
    [][/\ DOMAIN sessions \subseteq DOMAIN sessions'
       /\ Changed # {} =>
             \/ pc["handler"] = "acc_cs" /\ Changed = {msg.session_id}
             \/ \E t \in Tasks : pc[t] = "fs_cs" /\ Steps(t) /\ Changed = {cur[t]}
       /\ \A e \in CoalescedEvents' :
             \A c \in Range(e.text) : received'[c].session_id = e.session_id]_vars

\* Both sessions had text buffered and one of them was flushed for a boundary
\* event while the other kept its text.
C18_Witness ==
    \E s, u \in SessionIds :
        /\ pc["handler"] = "idle"
        /\ ticks = 0
        /\ SentText(s) # <<>>
        /\ BufferText(s) = <<>>
        /\ BufferText(u) # <<>>

\* ------------------------------------------------------------------ C19
\* Every stored template is a text chunk of the session it is stored under,
\* the accumulate branch only ever holds a text chunk, and an event that was
\* drained and waits to be sent is a text chunk of the session being flushed.
TemplatesAreTextChunks ==
    /\ \A s \in DOMAIN sessions :
          /\ sessions[s].template.kind = "notification"
          /\ sessions[s].template.update = "AgentMessageChunk"
          /\ sessions[s].template.content = "Text"
          /\ sessions[s].template.session_id = s
    /\ pc["handler"] \in {"acc_lock", "acc_cs"} => TextFragment(msg)
    /\ \A t \in Tasks :
          flushed[t] # None =>
             /\ TextFragment(flushed[t])
             /\ flushed[t].session_id = cur[t]

\* A drain that finds text puts exactly that text into the event it builds.
DrainKeepsText ==
    \A t \in Tasks :
        (/\ pc[t] = "fs_cs"
         /\ Steps(t)
         /\ cur[t] \in DOMAIN sessions
         /\ sessions[cur[t]].text # <<>>) =>
            /\ flushed'[t] # None
            /\ flushed'[t].text = sessions[cur[t]].text

\* C19: stored templates are text chunks keyed by their own session, so the
\* text extraction of the accumulate branch always finds text, and the text
\* replacement of flush_session always applies: the event built by a drain
\* carries the drained text, never the text the template came with.
C19_TemplatesAreTextChunks ==
    /\ []TemplatesAreTextChunks
    /\ [][DrainKeepsText]_vars

\* A drained event of two or more fragments waits to be sent, and its text
\* is not the text its template was stored with.
C19_Witness ==
    \E t \in Tasks :
        /\ pc[t] = "fs_send"
        /\ flushed[t] # None
        /\ Len(flushed[t].text) >= 2
        /\ cur[t] \in DOMAIN sessions
        /\ sessions[cur[t]].template.text # flushed[t].text

====
